---- MODULE Spec2Model ----
(***************************************************************************)
(* Model of oasis/clock/virtual_clock.py: the VirtualClock dataclass.      *)
(*                                                                         *)
(* A clock is a record [tick, event_counter, used_times].  The dict        *)
(* _event_counter is a function that is 0 where the dict has no key (the   *)
(* dict never stores 0), the dict _used_times is a function that is {}     *)
(* where the dict has no key (the dict never stores an empty set).         *)
(*                                                                         *)
(* random.Random(hash(t)).randint(lo, hi) is a fixed function of (t, lo,   *)
(* hi) inside one interpreter whose values the model does not know: the    *)
(* variable memo records every draw made so far, a draw may take any value *)
(* of lo..hi the first time and must repeat the recorded value afterwards. *)
(*                                                                         *)
(* Two clocks are kept: clock, the clock under study, and twin, a second   *)
(* clock of the same configuration living in the same interpreter, which   *)
(* receives every call the first one receives, except that where the first *)
(* is reset() the second is constructed anew.                              *)
(*                                                                         *)
(* History kept for the properties: op and out, the last operation and its *)
(* result; hist, the values returned since the last reset; answers, every  *)
(* call off the overflow path made in this interpreter, with what it was   *)
(* given and what it returned.                                             *)
(***************************************************************************)
EXTENDS Integers, Sequences, FiniteSets, Bags, TLC

\* ---- bounds of the exploration ----
tick_duration_s == 2
MaxTick == 1
MaxAgent == 2
MaxCalls == 2
MaxDays == 1

\* ---- configuration ----
seed == 42

MinusOne == 0 - 1
Ticks == 0..MaxTick
Agents == 1..MaxAgent
NoParent == <<>>
ParentTimes == (0 - 2)..((MaxTick + 1) * tick_duration_s - 1)
\* the calls made by the simulation: a post has no parent, a comment has one
Requests ==
  {[parent |-> NoParent, hint |-> "create_post"]}
    \cup {[parent |-> <<p>>, hint |-> "comment"] : p \in ParentTimes}
AdvanceArgs == MinusOne..MaxTick

VARIABLES clock, twin, out, twinOut, memo, wasReset, op, hist, calls, regular,
          answers, cfg

vars == <<clock, twin, out, twinOut, memo, wasReset, op, hist, calls, regular,
          answers, cfg>>

\* ---- construction ----
\* __post_init__: tick = 0, _event_counter = {}, _used_times = {}
post_init ==
  [tick |-> 0,
   event_counter |-> [k \in Ticks \X Agents |-> 0],
   used_times |-> [t \in Ticks |-> {}]]

\* ---- pure helpers ----
tick_start_s(c) == c.tick * tick_duration_s

tick_end_s_exclusive(c) == (c.tick + 1) * tick_duration_s

tick_end_s(c) == (c.tick + 1) * tick_duration_s - 1

min_time_of_not_strict(c, parent_time) ==
  IF parent_time # NoParent THEN parent_time[1] ELSE c.tick * tick_duration_s

\* lines 163-167: the smallest admissible timestamp
min_time_of(c, parent_time) ==
  IF parent_time # NoParent THEN parent_time[1] + 1 ELSE tick_start_s(c)

overflow_time_boundary(c, parent_time) == (c.tick + 1) * tick_duration_s

\* line 175: the value returned when the range is empty
overflow_time(c, parent_time) == parent_time[1] + 1

local_seed_global_counter(c, agent_id, action_hint, event_index) ==
  <<seed, c.tick, agent_id, action_hint, calls>>

local_seed_after_increment(c, agent_id, action_hint, event_index) ==
  <<seed, c.tick, agent_id, action_hint, event_index + 1>>

\* line 183: the tuple that is hashed into the local seed
local_seed(c, agent_id, action_hint, event_index) ==
  <<seed, c.tick, agent_id, action_hint, event_index>>

randint_unseeded(m, ls, lo, hi) == lo..hi

\* lines 184-187: the values randint(lo, hi) of the local generator can take,
\* given the draws already observed in this interpreter
randint(m, ls, lo, hi) ==
  IF \E e \in m : e.seed = ls /\ e.lo = lo /\ e.hi = hi
  THEN {e.value : e \in {x \in m : x.seed = ls /\ x.lo = lo /\ x.hi = hi}}
  ELSE lo..hi

RECURSIVE probe_no_wrap(_, _, _, _, _)
probe_no_wrap(generated_time, used, lo, hi, attempts) ==
  IF generated_time \in used /\ attempts < hi - lo + 1
  THEN probe_no_wrap(generated_time + 1, used, lo, hi, attempts + 1)
  ELSE [time |-> generated_time, attempts |-> attempts]

RECURSIVE probe_one_more(_, _, _, _, _)
probe_one_more(generated_time, used, lo, hi, attempts) ==
  IF generated_time \in used /\ attempts <= hi - lo + 1
  THEN probe_one_more(IF generated_time + 1 > hi THEN lo
                      ELSE generated_time + 1,
                      used, lo, hi, attempts + 1)
  ELSE [time |-> generated_time, attempts |-> attempts]

probe_skipped(generated_time, used, lo, hi, attempts) ==
  [time |-> generated_time, attempts |-> attempts]

\* lines 191-197: the linear probe; returns the final candidate and the
\* number of iterations performed
RECURSIVE probe(_, _, _, _, _)
probe(generated_time, used, lo, hi, attempts) ==
  IF generated_time \in used /\ attempts < hi - lo + 1
  THEN probe(IF generated_time + 1 > hi THEN lo ELSE generated_time + 1,
             used, lo, hi, attempts + 1)
  ELSE [time |-> generated_time, attempts |-> attempts]

event_time_overflow_recorded(c, agent_id, parent_time, action_hint, generated) ==
  LET min_time == min_time_of(c, parent_time)
      max_time == tick_end_s(c)
      event_key == <<c.tick, agent_id>>
      event_index == c.event_counter[event_key]
      used == c.used_times[c.tick]
      pr == IF min_time > max_time
            THEN [time |-> parent_time[1] + 1, attempts |-> 0]
            ELSE probe(generated, used, min_time, max_time, 0)
  IN [clock |-> [c EXCEPT !.event_counter[event_key] = event_index + 1,
                          !.used_times[c.tick] = used \cup {pr.time}],
      ret |-> pr.time,
      path |-> IF min_time > max_time THEN "overflow"
               ELSE IF (min_time..max_time) \subseteq used
                    THEN "exhausted" ELSE "normal",
      attempts |-> pr.attempts,
      drawn |-> IF min_time > max_time THEN {}
                ELSE {[seed |-> local_seed(c, agent_id, action_hint, event_index),
                       lo |-> min_time, hi |-> max_time, value |-> generated]}]

\* lines 159-200: event_time, given the value generated by randint.
\* Result: the clock afterwards, the returned value, the path taken, the
\* number of probe iterations and the draw made (a set, empty on overflow).
event_time(c, agent_id, parent_time, action_hint, generated) ==
  LET min_time == min_time_of(c, parent_time)
      max_time == tick_end_s(c)
      event_key == <<c.tick, agent_id>>
      event_index == c.event_counter[event_key]
      used == c.used_times[c.tick]
      pr == probe(generated, used, min_time, max_time, 0)
  IN IF min_time > max_time
     THEN [clock |-> c, ret |-> overflow_time(c, parent_time),
           path |-> "overflow", attempts |-> 0, drawn |-> {}]
     ELSE [clock |-> [c EXCEPT !.event_counter[event_key] = event_index + 1,
                               !.used_times[c.tick] = used \cup {pr.time}],
           ret |-> pr.time,
           path |-> IF (min_time..max_time) \subseteq used
                    THEN "exhausted" ELSE "normal",
           attempts |-> pr.attempts,
           drawn |-> {[seed |-> local_seed(c, agent_id, action_hint, event_index),
                       lo |-> min_time, hi |-> max_time, value |-> generated]}]

\* lines 172-175: parent_time + 1 is evaluated with parent_time = None when
\* the range of a call without parent is empty, which raises TypeError
event_time_raises(c, parent_time) ==
  parent_time = NoParent /\ min_time_of(c, parent_time) > tick_end_s(c)

\* the values the generator may produce for this call (one dummy value on
\* the overflow path, which draws nothing)
generated_times(m, c, agent_id, parent_time, action_hint) ==
  LET min_time == min_time_of(c, parent_time)
      max_time == tick_end_s(c)
  IN IF min_time > max_time THEN {0}
     ELSE randint(m, local_seed(c, agent_id, action_hint,
                                c.event_counter[<<c.tick, agent_id>>]),
                  min_time, max_time)

\* lines 94-107: advance_tick has no check of n and never raises
advance_tick_raises(c, n) == FALSE

advance_tick_keep_counter(c, n) == [c EXCEPT !.tick = c.tick + n]

\* lines 94-107
advance_tick(c, n) ==
  [c EXCEPT !.tick = c.tick + n,
            !.event_counter = [k \in Ticks \X Agents |-> 0]]

\* lines 245-253: the getter of the alias
time_step(c) == c.tick

set_time_step_clearing(c, value) ==
  [c EXCEPT !.tick = value,
            !.event_counter = [k \in Ticks \X Agents |-> 0]]

\* lines 255-258
set_time_step(c, value) == [c EXCEPT !.tick = value]

reset_keep_used(c) ==
  [c EXCEPT !.tick = 0,
            !.event_counter = [k \in Ticks \X Agents |-> 0]]

\* lines 290-299
reset(c) ==
  [c EXCEPT !.tick = 0,
            !.event_counter = [k \in Ticks \X Agents |-> 0],
            !.used_times = [t \in Ticks |-> {}]]

\* ---- a clock of any configuration and its calendar ----
\* datetime keeps a day number (MinOrdinal .. MaxOrdinal, the ordinal of
\* 9999-12-31), a second of
\* the day and a microsecond; timedelta keeps days, seconds, microseconds
SecondsPerDay == 86400
MicrosPerSecond == 1000000
MaxOrdinal == 3652059
MinOrdinal == 1
DoubleMantissa == 53
DefaultEpochDay == 738886

\* line 73: the default epoch 2024-01-01 00:00:00, and three other epochs:
\* one two seconds before the last second datetime can hold, one with a
\* fraction of a second just before midnight, one at the first instant
\* datetime can hold
DefaultEpoch == [day |-> DefaultEpochDay, second |-> 0, microsecond |-> 0]
Epochs ==
  {DefaultEpoch,
   [day |-> MaxOrdinal, second |-> SecondsPerDay - 2, microsecond |-> 0],
   [day |-> DefaultEpochDay, second |-> SecondsPerDay - 1,
    microsecond |-> MicrosPerSecond \div 2],
   [day |-> MinOrdinal, second |-> 0, microsecond |-> 0]}

\* line 72: tick_duration_s is any int, nothing checks it
Durations == MinusOne..tick_duration_s

VirtualTimes ==
  {d * SecondsPerDay + s : d \in 0..MaxDays, s \in {0, 1, SecondsPerDay - 1}}

\* lines 202-215: virtual_time_s is any int, nothing checks its sign
DatetimeArgs == VirtualTimes \cup {MinusOne, 0 - SecondsPerDay - 1}

\* lines 72-92: VirtualClock(tick_duration_s = d, epoch = e); the fields
\* call, raised, ret, v, dt, back hold the last operation and its results
construct(d, e) ==
  [tick_duration_s |-> d, epoch |-> e, tick |-> 0,
   used_times |-> [t \in Ticks |-> {}],
   call |-> "init", raised |-> "", ret |-> <<>>,
   v |-> <<>>, dt |-> <<>>, back |-> <<>>]

\* lines 202-215: epoch + timedelta(seconds = v); <<>> when the sum is
\* before datetime.min or past datetime.max and the addition raises
\* OverflowError
to_datetime(e, virtual_time_s) ==
  LET total == e.second + virtual_time_s
      day == e.day + total \div SecondsPerDay
  IN IF day < MinOrdinal \/ day > MaxOrdinal THEN <<>>
     ELSE <<[day |-> day, second |-> total % SecondsPerDay,
             microsecond |-> e.microsecond]>>

\* line 240: total_seconds() is a float, the double nearest to the exact
\* number of seconds. bit_length(m) is the number of binary digits of m,
\* halve(n, j) is n \div 2^j
RECURSIVE bit_length(_)
bit_length(m) == IF m = 0 THEN 0 ELSE 1 + bit_length(m \div 2)

RECURSIVE halve(_, _)
halve(n, j) == IF j <= 0 \/ n = 0 THEN n ELSE halve(n \div 2, j - 1)

\* line 240: magnitude + rem / 10^6 seconds (0 <= rem < 10^6) rounds to the
\* double magnitude + 1 when it is less than half a unit in the last place
\* below it; a double of bit_length(magnitude) integer digits has
\* DoubleMantissa - bit_length(magnitude) fractional digits
rounds_up(magnitude, rem) ==
  MicrosPerSecond - rem
    <= halve(MicrosPerSecond - 1, DoubleMantissa + 1 - bit_length(magnitude))

from_datetime_seconds_field(e, dt) ==
  LET borrow == IF dt.microsecond < e.microsecond THEN 1 ELSE 0
  IN (dt.second - e.second - borrow) % SecondsPerDay

\* lines 229-240: int((dt - epoch).total_seconds()); the difference is
\* normalised to whole seconds and a fraction in [0, 1), total_seconds()
\* rounds its magnitude to a double and int() truncates toward zero
from_datetime(e, dt) ==
  LET borrow == IF dt.microsecond < e.microsecond THEN 1 ELSE 0
      whole == (dt.day - e.day) * SecondsPerDay
                 + (dt.second - e.second) - borrow
      frac == dt.microsecond - e.microsecond + borrow * MicrosPerSecond
      below == whole < 0 /\ frac > 0
      magnitude == IF below THEN (0 - whole) - 1
                   ELSE IF whole < 0 THEN 0 - whole ELSE whole
      rem == IF below THEN MicrosPerSecond - frac ELSE frac
      truncated == IF rounds_up(magnitude, rem) THEN magnitude + 1
                   ELSE magnitude
  IN IF whole < 0 THEN 0 - truncated ELSE truncated

\* ---- the state machine ----
NoOp == [name |-> "init", agent |-> 0, parent |-> NoParent, hint |-> "",
         n |-> 0, path |-> "", attempts |-> 0, raised |-> FALSE]

Init ==
  /\ clock = post_init
  /\ twin = post_init
  /\ out = <<>>
  /\ twinOut = <<>>
  /\ memo = {}
  /\ wasReset = FALSE
  /\ op = NoOp
  /\ hist = EmptyBag
  /\ calls = 0
  /\ regular = TRUE
  /\ answers = EmptyBag
  /\ cfg = construct(tick_duration_s, DefaultEpoch)

EventTime(agent_id, parent_time, action_hint) ==
  /\ calls < MaxCalls
  /\ \E g1 \in generated_times(memo, clock, agent_id, parent_time, action_hint) :
       LET r1 == event_time(clock, agent_id, parent_time, action_hint, g1)
           m1 == memo \cup r1.drawn
       IN /\ clock' = r1.clock
          /\ out' = <<r1.ret>>
          /\ op' = [name |-> "event_time", agent |-> agent_id,
                    parent |-> parent_time, hint |-> action_hint, n |-> 0,
                    path |-> r1.path, attempts |-> r1.attempts,
                    raised |-> event_time_raises(clock, parent_time)]
          /\ hist' = hist (+) SetToBag({[tick |-> clock.tick, value |-> r1.ret,
                                         path |-> r1.path]})
          /\ \E g2 \in generated_times(m1, twin, agent_id, parent_time,
                                         action_hint) :
               LET r2 == event_time(twin, agent_id, parent_time,
                                    action_hint, g2)
               IN /\ twin' = r2.clock
                  /\ twinOut' = <<r2.ret>>
                  /\ memo' = m1 \cup r2.drawn
          /\ answers' =
               IF r1.path = "overflow" THEN answers
               ELSE answers (+) SetToBag(
                      {[tick |-> clock.tick, agent |-> agent_id,
                        hint |-> action_hint,
                        index |-> clock.event_counter[<<clock.tick, agent_id>>],
                        min |-> min_time_of(clock, parent_time),
                        used |-> clock.used_times[clock.tick],
                        ret |-> r1.ret]})
  /\ calls' = calls + 1
  /\ UNCHANGED <<wasReset, regular, cfg>>

AdvanceTick(n) ==
  /\ clock.tick + n \in Ticks
  /\ clock' = advance_tick(clock, n)
  /\ twin' = advance_tick(twin, n)
  /\ op' = [NoOp EXCEPT !.name = "advance_tick", !.n = n,
                       !.raised = advance_tick_raises(clock, n)]
  /\ regular' = (regular /\ n >= 1)
  /\ out' = <<>>
  /\ twinOut' = <<>>
  /\ UNCHANGED <<memo, wasReset, hist, calls, answers, cfg>>

SetTimeStep(value) ==
  /\ clock' = set_time_step(clock, value)
  /\ twin' = set_time_step(twin, value)
  /\ op' = [NoOp EXCEPT !.name = "time_step", !.n = value]
  /\ regular' = FALSE
  /\ out' = <<>>
  /\ twinOut' = <<>>
  /\ UNCHANGED <<memo, wasReset, hist, calls, answers, cfg>>

Reset ==
  /\ clock' = reset(clock)
  /\ twin' = post_init
  /\ wasReset' = TRUE
  /\ op' = [NoOp EXCEPT !.name = "reset"]
  /\ hist' = EmptyBag
  /\ regular' = TRUE
  /\ out' = <<>>
  /\ twinOut' = <<>>
  /\ UNCHANGED <<memo, calls, answers, cfg>>

Next ==
  \/ \E a \in Agents, r \in Requests : EventTime(a, r.parent, r.hint)
  \/ \E n \in AdvanceArgs : AdvanceTick(n)
  \/ \E v \in Ticks : SetTimeStep(v)
  \/ Reset

Spec == Init /\ [][Next]_vars

\* ---- the state machine of a clock of any configuration ----
InitConfig ==
  /\ clock = post_init
  /\ twin = post_init
  /\ out = <<>>
  /\ twinOut = <<>>
  /\ memo = {}
  /\ wasReset = FALSE
  /\ op = NoOp
  /\ hist = EmptyBag
  /\ calls = 0
  /\ regular = TRUE
  /\ answers = EmptyBag
  /\ \E d \in Durations, e \in Epochs : cfg = construct(d, e)

clockvars ==
  <<clock, twin, out, twinOut, memo, wasReset, op, hist, calls, regular,
    answers>>

\* lines 94-107 on this clock, by one tick
ConfigAdvanceTick ==
  /\ cfg.tick < MaxTick
  /\ cfg' = [cfg EXCEPT !.tick = @ + 1, !.call = "advance_tick",
                        !.raised = "", !.ret = <<>>]
  /\ UNCHANGED clockvars

\* lines 159-200 on this clock, for a call without parent: TypeError when
\* the range is empty (parent_time + 1 with parent_time None), else a value
\* drawn in the range and probed against the used values
ConfigEventTime ==
  LET min_time == cfg.tick * cfg.tick_duration_s
      max_time == (cfg.tick + 1) * cfg.tick_duration_s - 1
      used == cfg.used_times[cfg.tick]
  IN /\ IF min_time > max_time
        THEN cfg' = [cfg EXCEPT !.call = "event_time",
                                !.raised = "TypeError", !.ret = <<>>]
        ELSE \E generated \in min_time..max_time :
               LET pr == probe(generated, used, min_time, max_time, 0)
               IN cfg' = [cfg EXCEPT !.call = "event_time", !.raised = "",
                                     !.ret = <<pr.time>>,
                                     !.used_times[cfg.tick] = used \cup {pr.time}]
     /\ UNCHANGED clockvars

\* lines 202-215
ToDatetime(virtual_time_s) ==
  /\ cfg' = [cfg EXCEPT !.call = "to_datetime", !.ret = <<>>,
                        !.v = <<virtual_time_s>>,
                        !.dt = to_datetime(cfg.epoch, virtual_time_s),
                        !.back = <<>>,
                        !.raised =
                          IF to_datetime(cfg.epoch, virtual_time_s) = <<>>
                          THEN "OverflowError" ELSE ""]
  /\ UNCHANGED clockvars

\* lines 229-240, applied to the instant to_datetime returned
FromDatetime ==
  /\ cfg.call = "to_datetime"
  /\ cfg.dt # <<>>
  /\ cfg' = [cfg EXCEPT !.call = "from_datetime", !.raised = "",
                        !.back = <<from_datetime(cfg.epoch, cfg.dt[1])>>]
  /\ UNCHANGED clockvars

NextConfig ==
  \/ ConfigAdvanceTick
  \/ ConfigEventTime
  \/ \E v \in DatetimeArgs : ToDatetime(v)
  \/ FromDatetime

SpecConfig == InitConfig /\ [][NextConfig]_vars

\* ---- vocabulary of the properties ----
IsCall == op.name = "event_time"
HasParent == op.parent # NoParent
RangeStart == clock.tick * tick_duration_s
RangeEnd == (clock.tick + 1) * tick_duration_s - 1
Issued == BagToSet(hist)
NoCounts == [k \in Ticks \X Agents |-> 0]
NoTimes == [t \in Ticks |-> {}]

\* C1. Causality: every call with a parent returns a value strictly greater
\* than the parent, on the normal path (probing and wrap-around included)
\* and on the overflow path.
C1_Causality == (IsCall /\ HasParent) => out[1] > op.parent[1]

\* a call with a parent whose probe wrapped round to the bottom of its range
C1_Witness ==
  /\ IsCall /\ HasParent /\ op.path = "normal"
  /\ op.attempts >= 1
  /\ out[1] = op.parent[1] + 1

\* C2 as stated: two calls made in the same tick, neither of them in the
\* exhaustion case, never return the same value.
C2_UniqueInTick_Stated ==
  \A r1, r2 \in Issued :
    (r1.tick = r2.tick /\ r1.value = r2.value
       /\ r1.path # "exhausted" /\ r2.path # "exhausted")
      => (r1 = r2 /\ CopiesIn(r1, hist) = 1)

\* C2 amended: two calls made in the same tick, neither of them in the
\* exhaustion case nor on the parent-overflow path, never return the same
\* value.
C2_UniqueInTick ==
  \A r1, r2 \in Issued :
    (r1.tick = r2.tick /\ r1.value = r2.value
       /\ r1.path = "normal" /\ r2.path = "normal")
      => (r1 = r2 /\ CopiesIn(r1, hist) = 1)

\* the second call of a tick drew a used value and was moved off it
C2_Witness ==
  /\ IsCall /\ op.path = "normal" /\ op.attempts >= 1
  /\ \E r \in Issued :
       r.tick = clock.tick /\ r.path = "normal" /\ r.value # out[1]

\* C3. Run-wide uniqueness: while the tick only moves by advance(n >= 1)
\* and the clock is not reset, no value is returned twice, in the same or
\* in different ticks, exhaustion excepted.
C3_UniqueInRun ==
  regular =>
    \A r1, r2 \in Issued :
      (r1.value = r2.value /\ r1.path # "exhausted" /\ r2.path # "exhausted")
        => (r1 = r2 /\ CopiesIn(r1, hist) = 1)

C5_ParentInTickRange ==
  (IsCall /\ HasParent /\ op.path # "overflow")
    => (RangeStart <= out[1] /\ out[1] <= RangeEnd)

\* C6. Without a parent every returned value lies in tick_range() of the
\* tick active at the call.
C6_NoParentInTickRange ==
  (IsCall /\ ~HasParent) => (RangeStart <= out[1] /\ out[1] <= RangeEnd)

\* a call without parent made after an advance
C6_Witness ==
  /\ IsCall /\ ~HasParent /\ clock.tick = 1
  /\ out[1] \in (tick_duration_s)..(2 * tick_duration_s - 1)

\* C7. Every call returns a non-negative value, whatever the actor, the
\* parent (negative ones included) and the hint.
C7_NonNegative == IsCall => out[1] >= 0

\* C8. Parent overflow: when parent + 1 exceeds the end of the tick's range
\* the call returns exactly parent + 1.
C8_Overflow ==
  (IsCall /\ HasParent /\ op.parent[1] + 1 > RangeEnd)
    => out[1] = op.parent[1] + 1

\* a parent beyond the end of a tick in which values are already used
C8_Witness ==
  /\ IsCall /\ HasParent /\ op.parent[1] > RangeEnd
  /\ clock.used_times[clock.tick] # {}
  /\ out[1] = op.parent[1] + 1

\* C9. Reset equals fresh: reset() leaves tick 0, no counters and no used
\* values, and from then on the clock answers as a freshly constructed one.
C9_ResetIsFresh ==
  /\ op.name = "reset" =>
       (clock.tick = 0 /\ clock.event_counter = NoCounts
          /\ clock.used_times = NoTimes)
  /\ wasReset => (clock = twin /\ out = twinOut)

\* a call answered before the reset and one after it
C9_Witness ==
  /\ wasReset /\ calls = 2 /\ IsCall /\ op.path = "normal"
  /\ BagCardinality(hist) = 1

\* C10. advance(n), n >= 1, adds n to the tick, empties the call counters
\* and leaves the used values of every tick alone; event_time leaves the
\* tick alone.
C10_AdvanceFrame ==
  [][/\ (op'.name = "advance_tick" /\ op'.n >= 1) =>
          /\ clock'.tick = clock.tick + op'.n
          /\ clock'.event_counter = NoCounts
          /\ clock'.used_times = clock.used_times
     /\ op'.name = "event_time" => clock'.tick = clock.tick]_vars

\* the tick was advanced out of a tick in which a value had been issued
C10_Witness ==
  /\ op.name = "advance_tick" /\ op.n >= 1
  /\ clock.tick = 1
  /\ clock.used_times[0] # {}
  /\ clock.event_counter = NoCounts

\* C11. advance(n) with n < 1 fails with an error and leaves the tick as it
\* was: no call of advance moves the tick backward or leaves it in place
\* silently.
C11_AdvanceRejectsNonPositive ==
  [][(op'.name = "advance_tick" /\ op'.n < 1)
       => (op'.raised /\ clock'.tick = clock.tick)]_vars

\* two calls agree on tick, actor, hint and call index (the seed is the same
\* for all calls of one clock)
SameIdentity(a, b) ==
  /\ a.tick = b.tick /\ a.agent = b.agent
  /\ a.hint = b.hint /\ a.index = b.index

MinAllowed == IF HasParent THEN op.parent[1] + 1 ELSE RangeStart

\* C15. Uniqueness resolution is complete: off the overflow path the value
\* returned lies in [min_allowed, tick_end], and it is a value that was
\* already used in the tick only if every value of that range was.
C15_ProbeComplete ==
  [][(op'.name = "event_time" /\ op'.path # "overflow") =>
       LET lo == IF op'.parent # NoParent THEN op'.parent[1] + 1
                 ELSE clock.tick * tick_duration_s
           hi == (clock.tick + 1) * tick_duration_s - 1
           used == clock.used_times[clock.tick]
       IN /\ out'[1] \in lo..hi
          /\ out'[1] \in used => (lo..hi) \subseteq used]_vars

\* a call without parent whose candidate was used and whose probe wrapped
\* round to the start of the tick
C15_Witness ==
  /\ IsCall /\ ~HasParent /\ op.path = "normal"
  /\ op.attempts >= 1
  /\ out[1] = RangeStart

\* C16 as stated: every call raises the counter entry of (tick, actor) by
\* one and no other entry, so that the entry is the number of calls made
\* for that pair since the last advance.
C16_CallIndex_Stated ==
  [][op'.name = "event_time" =>
       clock'.event_counter =
         [clock.event_counter EXCEPT ![<<clock.tick, op'.agent>>] = @ + 1]]_vars

\* C16 amended: every call off the overflow path feeds the counter entry of
\* (tick, actor) into the local seed, raises that entry by one and changes
\* no other entry, so that the entry is the number of calls off the
\* overflow path made for that pair since the last advance or reset.
C16_CallIndex ==
  [][(op'.name = "event_time" /\ op'.path # "overflow") =>
       LET event_key == <<clock.tick, op'.agent>>
           event_index == clock.event_counter[event_key]
       IN /\ clock'.event_counter =
               [clock.event_counter EXCEPT ![event_key] = event_index + 1]
          /\ \E e \in memo' :
               e.seed = <<seed, clock.tick, op'.agent, op'.hint, event_index>>]_vars

\* the second call of an actor in a tick
C16_Witness ==
  /\ IsCall /\ op.path # "overflow"
  /\ clock.event_counter[<<clock.tick, op.agent>>] = 2
  /\ \A a \in Agents \ {op.agent} : clock.event_counter[<<clock.tick, a>>] = 0

\* C17. Assigning to time_step sets the tick to the value assigned, forward
\* or backward, and leaves the call counters and the used values as they
\* were; reading time_step gives the tick.
C17_TimeStepSetter ==
  [][op'.name = "time_step" =>
       /\ clock'.tick = op'.n
       /\ time_step(clock') = op'.n
       /\ clock'.event_counter = clock.event_counter
       /\ clock'.used_times = clock.used_times]_vars

\* the tick was assigned while a counter and a used value were recorded
C17_Witness ==
  /\ op.name = "time_step" /\ clock.tick = 1
  /\ \E a \in Agents : clock.event_counter[<<0, a>>] >= 1
  /\ clock.used_times[0] # {}

\* C18. The probe loop of a call makes at most tick_end - min_allowed + 1
\* iterations, and none on the overflow path.
C18_ProbeBound ==
  IsCall => op.attempts <= (IF op.path = "overflow" THEN 0
                            ELSE RangeEnd - MinAllowed + 1)

\* a call that found its whole range used and went all the way round
C18_Witness ==
  /\ IsCall /\ op.path = "exhausted"
  /\ op.attempts = RangeEnd - MinAllowed + 1

\* C19. A call on the overflow path leaves the clock as it was; any other
\* call adds the value it returns to the used values of the current tick,
\* changes no other tick's used values and leaves the tick alone.
C19_OverflowFrame ==
  [][op'.name = "event_time" =>
       IF op'.path = "overflow"
       THEN clock' = clock
       ELSE /\ clock'.tick = clock.tick
            /\ clock'.used_times =
                 [clock.used_times EXCEPT ![clock.tick] = @ \cup {out'[1]}]]_vars

\* an overflow call of an actor that had been counted once in this tick
C19_Witness ==
  /\ IsCall /\ op.path = "overflow"
  /\ clock.event_counter[<<clock.tick, op.agent>>] = 1
  /\ out[1] \notin clock.used_times[clock.tick]

\* C12. A clock with tick_duration_s <= 0 cannot be constructed: no clock
\* has an empty tick range (start > end) and a call without parent never
\* ends in an error.
C12_ConfigRejected ==
  /\ cfg.tick * cfg.tick_duration_s <= (cfg.tick + 1) * cfg.tick_duration_s - 1
  /\ cfg.raised # "TypeError"

\* C14 as stated: for every v >= 0 and every epoch, to_datetime(v) is an
\* instant and from_datetime of it is v.
C14_RoundTrip_Stated ==
  /\ (cfg.call = "to_datetime" /\ cfg.v[1] >= 0) => cfg.dt # <<>>
  /\ (cfg.call = "from_datetime" /\ cfg.v[1] >= 0) => cfg.back = cfg.v

\* C14 amended: for every v >= 0 and every epoch with epoch + v seconds not
\* after the last instant datetime can hold, to_datetime(v) is an instant
\* and from_datetime of it is v.
C14_RoundTrip ==
  /\ (/\ cfg.call = "to_datetime"
      /\ cfg.v[1] >= 0
      /\ cfg.epoch.day + (cfg.epoch.second + cfg.v[1]) \div SecondsPerDay
           <= MaxOrdinal)
       => cfg.dt # <<>>
  /\ (cfg.call = "from_datetime" /\ cfg.v[1] >= 0) => cfg.back = cfg.v

\* a round trip of more than a day from an epoch that is not at midnight
C14_Witness ==
  /\ cfg.call = "from_datetime"
  /\ cfg.v[1] > SecondsPerDay
  /\ cfg.epoch.second > 0
  /\ cfg.dt[1].day > cfg.epoch.day + 1
  /\ cfg.back = cfg.v
====
